---- MODULE Spec2Model ----
(***************************************************************************)
(* InteractionCollector (src/src/struct/ActionRow.ts) on top of the base   *)
(* Collector (src/src/struct/Collector.ts), driven by the events of one    *)
(* client.  Every operator that takes a world w is a piece of synchronous  *)
(* JavaScript: it maps the program state before the piece to the state     *)
(* after it.  An action is one run-to-completion callback of the event     *)
(* loop: it applies such operators to the current state.                   *)
(***************************************************************************)
EXTENDS Integers, Sequences, FiniteSets, TLC

\* ------------------------------------------------------------------ bounds
NumCollectors == 2      \* collectors that can be created on the client
MaxInteractions == 2    \* interactionCreate events the client emits
MaxLimit == 2           \* largest configured `max`
MaxStopCalls == 1       \* explicit stop() calls
MaxDeletions == 1       \* deletion events the client emits
MaxNext == 1            \* `next` promises obtained per collector
MaxTime == 2            \* longest timer duration, in clock ticks
MaxResets == 1          \* resetTimer() calls per collector
MaxDelay == 1           \* jobs a filter takes to resolve, after the first

VARIABLES
    collectors,   \* collectors[c]: the fields of collector c (and its log)
    client,       \* the client's listener registry and listener budget
    promises,     \* promises[c][p]: the p-th promise returned by `next`
    iter,         \* iter[c]: the async generator of collector c
    calls,        \* handleCollect calls suspended at an await
    dispatched,   \* interactions the client has emitted
    deletions     \* number of deletion events the client has emitted

vars == <<collectors, client, promises, iter, calls, dispatched, deletions>>

Collectors == 1..NumCollectors
None == "null"

\* a ?? b
Coalesce(a, b) == IF a # None THEN a ELSE b

\* setTimeout and clearTimeout, on the number of timers the runtime holds;
\* clearing a timer that has fired does nothing
SetTimeout(n) == n + 1
ClearTimeout(n) == IF n > 0 THEN n - 1 ELSE 0

\* a duration that is not given (undefined)
NoDuration == -1
\* a ?? b, for durations
Default(a, b) == IF a # NoDuration THEN a ELSE b

\* -------------------------------------------------------------- the inputs
NoMessage == [id |-> None, channelID |-> None]
NoResponse == [id |-> None, channelID |-> None]
NoChannel == [id |-> None]
NoGuild == [id |-> None]

NoOptions ==
    [time |-> 0, idle |-> 0, max |-> 0, maxComponents |-> 0, maxUsers |-> 0,
     message |-> NoMessage, interactionResponse |-> NoResponse,
     channel |-> NoChannel, guild |-> NoGuild,
     interactionType |-> None, componentType |-> None,
     \* filter: absent, "function" (supplied by the caller, answers as it
     \* pleases) or "string" (a value that is not a function)
     filter |-> None]

\* the options o with a filter function supplied by the caller
WithFilter(o) == [o EXCEPT !.filter = "function"]

\* the option objects collectors are constructed with
Options ==
    {WithFilter(o) : o \in
        {NoOptions}
        \cup {[NoOptions EXCEPT !.max = n] : n \in 1..MaxLimit}
        \cup {[NoOptions EXCEPT !.time = 1, !.idle = 1,
                                !.message = [id |-> "m1", channelID |-> "c1"]],
              [NoOptions EXCEPT !.maxUsers = 1, !.channel = [id |-> "c1"],
                                !.guild = [id |-> "g1"],
                                !.componentType = "BUTTON"],
              [NoOptions EXCEPT !.maxComponents = 1, !.idle = 1,
                                !.interactionResponse =
                                    [id |-> "x1", channelID |-> None],
                                !.interactionType = "MESSAGE_COMPONENT"]}}

\* the option objects of collectors constructed with every kind of filter
CtorOptions ==
    {[o EXCEPT !.filter = f] :
         o \in {NoOptions,
                [NoOptions EXCEPT !.time = 1, !.idle = 1, !.max = 1,
                                  !.message = [id |-> "m1", channelID |-> "c1"],
                                  !.guild = [id |-> "g1"]]},
         f \in {None, "function", "string"}}

\* the option objects of collectors whose timers are followed on the clock
TimedOptions ==
    {WithFilter(o) : o \in
        {[NoOptions EXCEPT !.time = t] : t \in 1..MaxTime}
        \cup {[NoOptions EXCEPT !.idle = i] : i \in 1..MaxTime}
        \cup {[NoOptions EXCEPT !.time = MaxTime, !.idle = 1,
                                !.max = MaxLimit]}}

\* the option objects that configure any of the six dimensions an
\* interaction is matched on
HookOptions ==
    {[NoOptions EXCEPT !.interactionType = t, !.componentType = ct,
                       !.message = m, !.interactionResponse = r,
                       !.channel = ch, !.guild = g] :
         t \in {None, "MESSAGE_COMPONENT"}, ct \in {None, "BUTTON"},
         m \in {NoMessage, [id |-> "m1", channelID |-> None]},
         r \in {NoResponse, [id |-> "x1", channelID |-> None]},
         ch \in {NoChannel, [id |-> "c1"]}, g \in {NoGuild, [id |-> "g1"]}}

\* the durations resetTimer is called with
Durations == {NoDuration} \cup 0..MaxTime

\* the option objects of collectors that share the client
SharedOptions ==
    {WithFilter(o) : o \in
        {[NoOptions EXCEPT !.max = 1, !.idle = 1],
         [NoOptions EXCEPT !.time = 1,
                           !.message = [id |-> "m1", channelID |-> "c1"],
                           !.guild = [id |-> "g1"]]}}

User(n) == [id |-> IF n % 2 = 1 THEN "u1" ELSE "u2", tag |-> n]
\* interaction.user is absent
NoUser == [id |-> None, tag |-> 0]

\* the n-th interaction the client emits; those from 10 on differ from the
\* first in one respect each, 19 and 20 have no message and a message
\* without an originating interaction; 21 is no payload at all (undefined),
\* 22, 23 and 25 lack the user, the channel id and the guild id
Interaction(n) ==
    [defined |-> n # 21,
     id |-> "i" \o ToString(n),
     type |-> IF n = 10 THEN "APPLICATION_COMMAND" ELSE "MESSAGE_COMPONENT",
     componentType |-> IF n % 3 = 0 \/ n = 11 THEN "SELECT_MENU" ELSE "BUTTON",
     message |-> [id |-> IF n = 19 THEN None
                         ELSE IF n % 3 = 0 \/ n = 13 THEN "m2" ELSE "m1",
                  interaction |-> [id |-> IF n \in {19, 20} THEN None
                                          ELSE IF n = 14 THEN "x2" ELSE "x1"]],
     channelID |-> IF n = 23 THEN None ELSE IF n = 16 THEN "c2" ELSE "c1",
     guildID |-> IF n = 25 THEN None ELSE IF n = 17 THEN "g2" ELSE "g1",
     user |-> IF n = 22 THEN NoUser ELSE User(n)]

\* the interactions the client emits
Interactions == 1..MaxInteractions
\* the interactions it emits while several collectors share it
SharedInteractions == {1}
\* the interactions it emits one at a time
SeqInteractions == 1..(MaxInteractions + 1)
\* the interactions the hooks collect and dispose are applied to
HookInteractions == {1, 10, 11, 13, 14, 16, 17, 19, 20}
\* the payloads that lack a field, with a well-formed one
MalformedInteractions == {1, 19, 21, 22, 23, 25}
\* the interactions it emits while the clock is followed
TimedInteractions == {1, 2}

Messages ==
    {[id |-> "m1", interaction |-> [id |-> None]],
     [id |-> "m2", interaction |-> [id |-> "x1"]],
     [id |-> "m2", interaction |-> [id |-> None]]}
BulkMessages == {{"m1", "m2"}, {"m2"}}
Channels ==
    {[id |-> "c1", threads |-> {}], [id |-> "c0", threads |-> {"c1"}],
     [id |-> "c2", threads |-> {}]}
Threads == {[id |-> "c1"], [id |-> "c2"]}
Guilds == {[id |-> "g1"], [id |-> "g2"]}

\* ------------------------------------------------------------ the emitters
\* listeners on a collector's own `collect` and `end` events
CtorL == <<"ctor", 0>>
NextL(p) == <<"next", p>>
IterL == <<"iter", 0>>
TickL == <<"tick", 0>>
StopL == <<"stop", 0>>

\* the events a collector listens to on the client
ClientEvents ==
    {"interactionCreate", "messageDelete", "messageDeleteBulk",
     "channelDelete", "threadDelete", "guildDelete"}

DefaultMaxListeners == 10

incrementMaxListeners(cl) == [cl EXCEPT !.maxListeners = @ + 1]
decrementMaxListeners(cl) == [cl EXCEPT !.maxListeners = @ - 1]

\* an entry of a collector's log of emitted notifications
Notification(type, args, collected, reason) ==
    [type |-> type, args |-> args, collected |-> collected, reason |-> reason]

\* --------------------------------------------------------------- the state
NoCollector ==
    [constructed |-> FALSE, options |-> NoOptions, filter |-> None,
     messageID |-> None, messageInteractionID |-> None, channelID |-> None,
     guildID |-> None, interactionType |-> None, componentType |-> None,
     \* `type` is read by dispose and assigned nowhere
     type |-> None,
     collected |-> <<>>, ended |-> FALSE,
     timeout |-> FALSE, idleTimeout |-> FALSE,
     \* the timers of the collector the runtime holds: scheduled, and neither
     \* cleared nor fired
     timers |-> 0, idleTimers |-> 0,
     \* the handleCollect calls that failed in the filter: the interaction,
     \* and the number of items collected by then
     failed |-> <<>>,
     \* ticks until a pending timer is due
     timeoutLeft |-> 0, idleLeft |-> 0,
     users |-> {}, total |-> 0,
     onCollect |-> {}, onEnd |-> {},
     \* history: notifications emitted, reasons of the stop calls, runs of
     \* the end handler
     log |-> <<>>, stopCalls |-> <<>>, cleanups |-> 0,
     \* history: the values checkEnd returned, the exception last thrown to
     \* a caller
     checkEnds |-> <<>>, thrown |-> None,
     \* history: the last dispose call and what it returned
     disposed |-> [n |-> 0, result |-> None],
     \* history: ticks since the construction and since the last accepted
     \* item (or the construction), resetTimer calls made
     age |-> 0, sinceAccept |-> 0, resets |-> 0]

NoPromise == [state |-> "none", value |-> <<>>, obtainedAt |-> 0]
NoIterator ==
    [state |-> "unstarted", queue |-> <<>>, yielded |-> <<>>, startAt |-> 0]

World ==
    [collectors |-> collectors, client |-> client, promises |-> promises,
     iter |-> iter]

Init ==
    /\ collectors = [c \in Collectors |-> NoCollector]
    /\ client = [listeners |-> {}, maxListeners |-> DefaultMaxListeners]
    /\ promises = [c \in Collectors |-> [p \in 1..MaxNext |-> NoPromise]]
    /\ iter = [c \in Collectors |-> NoIterator]
    /\ calls = {}
    /\ dispatched = {}
    /\ deletions = 0

\* ----------------------------------------------------- Collector: listeners
\* resolve / reject of a promise: only the first settles it
Settle(pr, state, value) ==
    IF pr.state = "pending"
    THEN [pr EXCEPT !.state = state, !.value = value]
    ELSE pr

\* a cleanup that forgets the `end` listener
NextCleanup_KeepsEnd(w, c, p) ==
    [w EXCEPT !.collectors[c].onCollect = @ \ {NextL(p)}]

\* next: cleanup
NextCleanup(w, c, p) ==
    [w EXCEPT !.collectors[c].onCollect = @ \ {NextL(p)},
              !.collectors[c].onEnd = @ \ {NextL(p)}]

\* next: onCollect(item)
NextOnCollect(w, c, p, item) ==
    LET w1 == NextCleanup(w, c, p)
    IN  [w1 EXCEPT !.promises[c][p] = Settle(@, "resolved", item)]

\* next: onEnd()
NextOnEnd(w, c, p) ==
    LET w1 == NextCleanup(w, c, p)
    IN  [w1 EXCEPT !.promises[c][p] =
                       Settle(@, "rejected", w1.collectors[c].collected)]

\* asyncIterator: onCollect(...item) pushes the rest-parameter array
IterOnCollect(w, c, item) ==
    [w EXCEPT !.iter[c].queue = Append(@, item)]

\* asyncIterator: tick
Tick(w, c) ==
    [w EXCEPT !.collectors[c].onCollect = @ \ {TickL},
              !.collectors[c].onEnd = @ \ {TickL},
              !.iter[c].state = "resumable"]

\* InteractionCollector: this.on("collect", ...); reading the id of an absent
\* user throws after the increment
CtorOnCollect(w, c, interaction) ==
    IF interaction.user = NoUser
    THEN [w EXCEPT !.collectors[c].total = @ + 1,
                   !.collectors[c].thrown = "TypeError"]
    ELSE [w EXCEPT !.collectors[c].total = @ + 1,
                   !.collectors[c].users =
                       {e \in @ : e[1] # interaction.user.id}
                       \cup {<<interaction.user.id, interaction.user>>}]

\* the function collector c holds for the event ev of the client: its own
\* handleCollect and bulkDeleteListener, and its own bound copy of a deletion
\* handler once the constructor has registered it; until then the method of
\* the prototype (0), which is registered nowhere
Handler(col, ev, c) ==
    CASE ev \in {"interactionCreate", "messageDeleteBulk"} -> c
      [] ev = "messageDelete" ->
             IF col.messageID # None \/ col.messageInteractionID # None
             THEN c ELSE 0
      [] ev \in {"channelDelete", "threadDelete"} ->
             IF col.channelID # None THEN c ELSE 0
      [] ev = "guildDelete" -> IF col.guildID # None THEN c ELSE 0

\* an end handler that leaves handleCollect registered on the client
CtorOnEnd_KeepsInteractionCreate(w, c) ==
    [w EXCEPT !.collectors[c].onEnd = @ \ {CtorL},
              !.collectors[c].cleanups = @ + 1,
              !.client = decrementMaxListeners(
                  [@ EXCEPT !.listeners =
                       @ \ {<<ev, c>> :
                                ev \in ClientEvents \ {"interactionCreate"}}])]

\* an end handler that does not give the listener budget back
CtorOnEnd_NoDecrement(w, c) ==
    [w EXCEPT !.collectors[c].onEnd = @ \ {CtorL},
              !.collectors[c].cleanups = @ + 1,
              !.client.listeners = @ \ {<<ev, c>> : ev \in ClientEvents}]

\* an end handler that removes every listener of the six events
CtorOnEnd_RemovesAll(w, c) ==
    [w EXCEPT !.collectors[c].onEnd = @ \ {CtorL},
              !.collectors[c].cleanups = @ + 1,
              !.client = decrementMaxListeners([@ EXCEPT !.listeners = {}])]

\* InteractionCollector: this.once("end", ...)
CtorOnEnd(w, c) ==
    [w EXCEPT !.collectors[c].onEnd = @ \ {CtorL},
              !.collectors[c].cleanups = @ + 1,
              !.client = decrementMaxListeners(
                  [@ EXCEPT !.listeners =
                       @ \ {<<ev, Handler(w.collectors[c], ev, c)>> :
                                ev \in ClientEvents}])]

RECURSIVE NextListeners(_, _, _, _, _, _)
\* the listeners of the pending `next` promises among the listeners L
NextListeners(w, c, L, p, type, item) ==
    IF p > MaxNext THEN w
    ELSE LET w1 == IF NextL(p) \notin L THEN w
                   ELSE IF type = "collect" THEN NextOnCollect(w, c, p, item)
                   ELSE NextOnEnd(w, c, p)
         IN  NextListeners(w1, c, L, p + 1, type, item)

\* emit("collect", ...args) throws: its first listener does
EmitThrows(w, c, args) ==
    CtorL \in w.collectors[c].onCollect /\ args[1].user = NoUser

\* this.emit("end", this.collected, reason)
EmitEnd(w, c, collected, reason) ==
    LET L == w.collectors[c].onEnd
        w1 == IF CtorL \in L THEN CtorOnEnd(w, c) ELSE w
        w2 == NextListeners(w1, c, L, 1, "end", collected)
        w3 == IF TickL \in L THEN Tick(w2, c) ELSE w2
    IN  [w3 EXCEPT !.collectors[c].log =
                       Append(@, Notification("end", <<>>, collected, reason))]

\* ------------------------------------------------------- Collector: methods
\* typeof f === "function"; "default" is the filter () => true
IsFunction(f) == f \in {"function", "default"}

\* a constructor that schedules the timers before it validates the filter
Collector_TimersFirst(o) ==
    LET col == [NoCollector EXCEPT
                    !.filter = Coalesce(o.filter, "default"),
                    !.options = o,
                    !.timeout = (o.time # 0),
                    !.timers = IF o.time # 0 THEN SetTimeout(@) ELSE @,
                    !.timeoutLeft = o.time,
                    !.idleTimeout = (o.idle # 0),
                    !.idleTimers = IF o.idle # 0 THEN SetTimeout(@) ELSE @,
                    !.idleLeft = o.idle]
    IN  IF ~IsFunction(col.filter)
        THEN [col EXCEPT !.thrown = "TypeError"]
        ELSE col

\* new Collector(client, o): the fields of the object when the constructor
\* returns or throws
Collector(o) ==
    LET col == [NoCollector EXCEPT
                    !.filter = Coalesce(o.filter, "default"),
                    !.options = o]
    IN  IF ~IsFunction(col.filter)
        THEN [col EXCEPT !.thrown = "TypeError"]
        ELSE [col EXCEPT !.timeout = (o.time # 0),
                         !.timers = IF o.time # 0 THEN SetTimeout(@) ELSE @,
                         !.timeoutLeft = o.time,
                         !.idleTimeout = (o.idle # 0),
                         !.idleTimers = IF o.idle # 0 THEN SetTimeout(@)
                                        ELSE @,
                         !.idleLeft = o.idle]

\* a stop without the `ended` guard
Stop_NoGuard(w, c, reason) ==
    EmitEnd([w EXCEPT !.collectors[c].stopCalls = Append(@, reason),
                      !.collectors[c].timeout = FALSE,
                      !.collectors[c].timers =
                          IF w.collectors[c].timeout THEN ClearTimeout(@)
                          ELSE @,
                      !.collectors[c].timeoutLeft = 0,
                      !.collectors[c].idleTimeout = FALSE,
                      !.collectors[c].idleTimers =
                          IF w.collectors[c].idleTimeout THEN ClearTimeout(@)
                          ELSE @,
                      !.collectors[c].idleLeft = 0,
                      !.collectors[c].ended = TRUE],
            c, w.collectors[c].collected, reason)

\* stop(reason)
Stop(w, c, reason) ==
    LET called == [w EXCEPT !.collectors[c].stopCalls = Append(@, reason)]
    IN  IF w.collectors[c].ended THEN called
        ELSE EmitEnd([called EXCEPT !.collectors[c].timeout = FALSE,
                                    !.collectors[c].timers =
                                        IF w.collectors[c].timeout
                                        THEN ClearTimeout(@) ELSE @,
                                    !.collectors[c].timeoutLeft = 0,
                                    !.collectors[c].idleTimeout = FALSE,
                                    !.collectors[c].idleTimers =
                                        IF w.collectors[c].idleTimeout
                                        THEN ClearTimeout(@) ELSE @,
                                    !.collectors[c].idleLeft = 0,
                                    !.collectors[c].ended = TRUE],
                     c, w.collectors[c].collected, reason)

\* a listener of the caller: collector.on("collect", () =>
\* collector.stop("listener"))
StopOnCollect(w, c) == Stop(w, c, "listener")

\* this.emit("collect", ...args); a listener that throws ends the emit, the
\* listeners after it are not called
EmitCollect(w, c, args) ==
    LET L == w.collectors[c].onCollect
        \* the entry keeps `collected` as it is when the emit is made
        w0 == [w EXCEPT !.collectors[c].log =
                            Append(@, Notification("collect", args,
                                                   w.collectors[c].collected,
                                                   None))]
        w1 == IF CtorL \in L THEN CtorOnCollect(w0, c, args[1]) ELSE w0
        w2 == IF EmitThrows(w, c, args) THEN w1
              ELSE NextListeners(w1, c, L, 1, "collect", args[1])
        w3 == IF IterL \in L /\ ~EmitThrows(w, c, args)
              THEN IterOnCollect(w2, c, args) ELSE w2
        w4 == IF TickL \in L /\ ~EmitThrows(w, c, args)
              THEN Tick(w3, c) ELSE w3
    IN  IF StopL \in L /\ ~EmitThrows(w, c, args)
        THEN StopOnCollect(w4, c) ELSE w4

\* `collected` is an array: it has no `size`
ArraySize(arr) == [defined |-> FALSE, n |-> 0]
MapSize(m) == [defined |-> TRUE, n |-> Cardinality(m)]
\* size >= limit, false when size is undefined
AtLeast(size, limit) == size.defined /\ size.n >= limit

\* get endReason
endReason(col) ==
    IF col.options.max # 0 /\ col.total >= col.options.max THEN "limit"
    ELSE IF col.options.maxComponents # 0
            /\ AtLeast(ArraySize(col.collected), col.options.maxComponents)
    THEN "componentLimit"
    ELSE IF col.options.maxUsers # 0
            /\ AtLeast(MapSize(col.users), col.options.maxUsers)
    THEN "userLimit"
    ELSE None

\* a checkEnd that returns its answer without stopping the collector
checkEnd_ReturnsOnly(w, c) ==
    LET reason == endReason(w.collectors[c])
    IN  [w EXCEPT !.collectors[c].checkEnds = Append(@, reason # None)]

\* checkEnd()
checkEnd(w, c) ==
    LET reason == endReason(w.collectors[c])
        w1 == IF reason # None THEN Stop(w, c, reason) ELSE w
    IN  [w1 EXCEPT !.collectors[c].checkEnds = Append(@, reason # None)]

\* `collected` is an array: it has no clear(), calling it throws
ArrayClear(arr) == [threw |-> TRUE, value |-> arr]

\* empty()
empty(w, c) ==
    LET w1 == [w EXCEPT !.collectors[c].total = 0]
        cleared == ArrayClear(w1.collectors[c].collected)
    IN  IF cleared.threw
        THEN [w1 EXCEPT !.collectors[c].thrown = "TypeError"]
        ELSE checkEnd([w1 EXCEPT !.collectors[c].collected = cleared.value,
                                 !.collectors[c].users = {}], c)

\* a resetTimer that schedules both timers whether or not one is pending
resetTimer_AlwaysSchedules(w, c, time, idle) ==
    LET col == w.collectors[c]
    IN  [w EXCEPT !.collectors[c].timeout = TRUE,
                  !.collectors[c].timers =
                      SetTimeout(IF col.timeout THEN ClearTimeout(@) ELSE @),
                  !.collectors[c].idleTimers =
                      SetTimeout(IF col.idleTimeout THEN ClearTimeout(@)
                                 ELSE @),
                  !.collectors[c].timeoutLeft = Default(time, col.options.time),
                  !.collectors[c].idleTimeout = TRUE,
                  !.collectors[c].idleLeft = Default(idle, col.options.idle),
                  !.collectors[c].resets = @ + 1]

\* resetTimer({ time, idle })
resetTimer(w, c, time, idle) ==
    LET col == w.collectors[c]
    IN  [w EXCEPT !.collectors[c].timers =
                      IF col.timeout THEN SetTimeout(ClearTimeout(@)) ELSE @,
                  !.collectors[c].idleTimers =
                      IF col.idleTimeout THEN SetTimeout(ClearTimeout(@))
                      ELSE @,
                  !.collectors[c].timeoutLeft =
                      IF col.timeout THEN Default(time, col.options.time)
                      ELSE @,
                  !.collectors[c].idleLeft =
                      IF col.idleTimeout THEN Default(idle, col.options.idle)
                      ELSE @,
                  !.collectors[c].resets = @ + 1]

\* the outcome of a hook that throws: reading a property of undefined
Throws == "throws"

\* a collect that does not look at the channel
collect_SkipsChannel(col, interaction) ==
    IF ~interaction.defined THEN Throws
    ELSE IF col.interactionType # None /\ interaction.type # col.interactionType
    THEN None
    ELSE IF col.componentType # None
            /\ interaction.componentType # col.componentType
    THEN None
    ELSE IF col.messageID # None /\ interaction.message.id # col.messageID
    THEN None
    ELSE IF col.messageInteractionID # None
            /\ interaction.message.interaction.id # col.messageInteractionID
    THEN None
    ELSE IF col.guildID # None /\ interaction.guildID # col.guildID
    THEN None
    ELSE interaction.id

\* collect(interaction); without a payload the first property read throws (at
\* the latest interaction.id)
collect(col, interaction) ==
    IF ~interaction.defined THEN Throws
    ELSE IF col.interactionType # None /\ interaction.type # col.interactionType
    THEN None
    ELSE IF col.componentType # None
            /\ interaction.componentType # col.componentType
    THEN None
    ELSE IF col.messageID # None /\ interaction.message.id # col.messageID
    THEN None
    ELSE IF col.messageInteractionID # None
            /\ interaction.message.interaction.id # col.messageInteractionID
    THEN None
    ELSE IF col.channelID # None /\ interaction.channelID # col.channelID
    THEN None
    ELSE IF col.guildID # None /\ interaction.guildID # col.guildID
    THEN None
    ELSE interaction.id

\* dispose(interaction)
dispose(col, interaction) ==
    IF ~interaction.defined THEN Throws
    ELSE IF col.type # None /\ interaction.type # col.type
    THEN None
    ELSE IF col.componentType # None
            /\ interaction.componentType # col.componentType
    THEN None
    ELSE IF col.messageID # None /\ interaction.message.id # col.messageID
    THEN None
    ELSE IF col.messageInteractionID # None
            /\ interaction.message.interaction.id # col.messageInteractionID
    THEN None
    ELSE IF col.channelID # None /\ interaction.channelID # col.channelID
    THEN None
    ELSE IF col.guildID # None /\ interaction.guildID # col.guildID
    THEN None
    ELSE interaction.id

\* ------------------------------------------ InteractionCollector: handlers
\* _handleMessageDeletion(message); a message without an originating
\* interaction has the id undefined, which is not === null
HandleMessageDeletion(w, c, message) ==
    LET col == w.collectors[c]
        w1 == IF message.id = col.messageID
              THEN Stop(w, c, "messageDelete") ELSE w
    IN  IF message.interaction.id = w1.collectors[c].messageInteractionID
           /\ message.interaction.id # None
        THEN Stop(w1, c, "messageDelete") ELSE w1

bulkDeleteListener(w, c, messages) ==
    IF w.collectors[c].messageID \in messages
    THEN Stop(w, c, "messageDelete") ELSE w

\* a channel handler that does not look at the threads of the channel
HandleChannelDeletion_IgnoresThreads(w, c, channel) ==
    IF channel.id = w.collectors[c].channelID
    THEN Stop(w, c, "channelDelete") ELSE w

HandleChannelDeletion(w, c, channel) ==
    IF channel.id = w.collectors[c].channelID
       \/ w.collectors[c].channelID \in channel.threads
    THEN Stop(w, c, "channelDelete") ELSE w

HandleThreadDeletion(w, c, thread) ==
    IF thread.id = w.collectors[c].channelID
    THEN Stop(w, c, "threadDelete") ELSE w

HandleGuildDeletion(w, c, guild) ==
    IF guild.id = w.collectors[c].guildID
    THEN Stop(w, c, "guildDelete") ELSE w

\* the listener collector c registered on the client for event ev
ClientListener(w, c, ev, payload) ==
    CASE ev = "messageDelete" -> HandleMessageDeletion(w, c, payload)
      [] ev = "messageDeleteBulk" -> bulkDeleteListener(w, c, payload)
      [] ev = "channelDelete" -> HandleChannelDeletion(w, c, payload)
      [] ev = "threadDelete" -> HandleThreadDeletion(w, c, payload)
      [] ev = "guildDelete" -> HandleGuildDeletion(w, c, payload)

RECURSIVE ClientEmit(_, _, _, _, _)
\* client.emit(ev, payload): the listeners L registered when the emit starts
\* are called in registration order
ClientEmit(w, L, c, ev, payload) ==
    IF c > NumCollectors THEN w
    ELSE ClientEmit(IF <<ev, c>> \in L THEN ClientListener(w, c, ev, payload)
                    ELSE w,
                    L, c + 1, ev, payload)

\* ------------------------------------------------------------- the actions
SetWorld(w) ==
    /\ collectors' = w.collectors
    /\ client' = w.client
    /\ promises' = w.promises
    /\ iter' = w.iter

\* a constructor that registers no threadDelete listener
Registered_NoThreadDelete(col, c) ==
    {<<"interactionCreate", c>>}
    \cup (IF col.messageID # None \/ col.messageInteractionID # None
          THEN {<<"messageDelete", c>>, <<"messageDeleteBulk", c>>}
          ELSE {})
    \cup (IF col.channelID # None THEN {<<"channelDelete", c>>} ELSE {})
    \cup (IF col.guildID # None THEN {<<"guildDelete", c>>} ELSE {})

\* the listeners the constructor of collector c registers on the client
Registered(col, c) ==
    {<<"interactionCreate", c>>}
    \cup (IF col.messageID # None \/ col.messageInteractionID # None
          THEN {<<"messageDelete", c>>, <<"messageDeleteBulk", c>>}
          ELSE {})
    \cup (IF col.channelID # None
          THEN {<<"channelDelete", c>>, <<"threadDelete", c>>}
          ELSE {})
    \cup (IF col.guildID # None THEN {<<"guildDelete", c>>} ELSE {})

\* new InteractionCollector(client, o): c is the c-th collector created; when
\* super() throws nothing else of the constructor runs
Construct(c, o) ==
    /\ ~collectors[c].constructed
    /\ collectors[c].thrown = None
    /\ \A d \in 1..(c - 1) : collectors[d].constructed
    /\ LET super == Collector(o)
           channelID ==
               Coalesce(o.interactionResponse.channelID,
                        Coalesce(o.message.channelID, o.channel.id))
           col == [super EXCEPT
                       !.constructed = TRUE,
                       !.messageID = o.message.id,
                       !.messageInteractionID = o.interactionResponse.id,
                       !.channelID = channelID,
                       !.guildID = o.guild.id,
                       !.interactionType = o.interactionType,
                       !.componentType = o.componentType,
                       !.onEnd = {CtorL},
                       !.onCollect = {CtorL}]
           registered == Registered(col, c)
       IN  IF super.thrown # None
           THEN /\ collectors' = [collectors EXCEPT ![c] = super]
                /\ client' = client
           ELSE /\ collectors' = [collectors EXCEPT ![c] = col]
                /\ client' = [incrementMaxListeners(client) EXCEPT
                                  !.listeners = @ \cup registered]
    /\ UNCHANGED <<promises, iter, calls, dispatched, deletions>>

\* the client emits interactionCreate: every registered handleCollect runs
\* up to its first await (the collect hook has been evaluated)
InteractionCreate(n) ==
    /\ n \notin dispatched
    /\ \E c \in Collectors : <<"interactionCreate", c>> \in client.listeners
    /\ dispatched' = dispatched \cup {n}
    /\ LET called == {d \in Collectors :
                          <<"interactionCreate", d>> \in client.listeners}
           \* the calls in which the hook threw have failed already
           failed == {d \in called :
                          collect(collectors[d], Interaction(n)) = Throws}
       IN  /\ calls' = calls \cup
                  {[c |-> c, n |-> n, pc |-> "collect",
                    collect |-> collect(collectors[c], Interaction(n))] :
                       c \in called \ failed}
           /\ collectors' =
                  [d \in Collectors |->
                      IF d \in failed
                      THEN [collectors[d] EXCEPT !.thrown = "TypeError"]
                      ELSE collectors[d]]
    /\ UNCHANGED <<client, promises, iter, deletions>>

\* the client emits interactionCreate once the handlers of the previous
\* one have completed
Delivery(n) ==
    /\ calls = {}
    /\ InteractionCreate(n)

\* the client emits the one interactionCreate of a run
HookEvent(n) ==
    /\ dispatched = {}
    /\ InteractionCreate(n)

\* collector.dispose(interaction)
Dispose(c, n) ==
    /\ collectors[c].constructed
    /\ collectors' =
           [collectors EXCEPT
                ![c].disposed =
                    [n |-> n, result |-> dispose(collectors[c], Interaction(n))]]
    /\ UNCHANGED <<client, promises, iter, calls, dispatched, deletions>>

\* the client emits interactionCreate, a bounded number of times
BoundedEvent(n) ==
    /\ Cardinality(dispatched) < MaxInteractions
    /\ InteractionCreate(n)

\* a handleCollect that evaluates the filter whatever the hook returned
ResumeCollect_FiltersAnyway(k) ==
    /\ k.pc = "collect"
    /\ calls' = (calls \ {k}) \cup {[k EXCEPT !.pc = "filter"]}
    /\ UNCHANGED <<collectors, client, promises, iter>>
    /\ UNCHANGED <<dispatched, deletions>>

\* handleCollect resumes with the result of the collect hook
ResumeCollect(k) ==
    /\ k.pc = "collect"
    /\ IF k.collect # None
       THEN /\ calls' = (calls \ {k}) \cup {[k EXCEPT !.pc = "filter"]}
            /\ UNCHANGED <<collectors, client, promises, iter>>
       ELSE /\ calls' = calls \ {k}
            /\ SetWorld(checkEnd(World, k.c))
    /\ UNCHANGED <<dispatched, deletions>>

\* an accept that restarts the time timer as well
Accept_RestartsTimeout(w, c, args) ==
    LET w1 == [w EXCEPT !.collectors[c].collected = Append(@, args[1])]
        w2 == EmitCollect(w1, c, args)
    IN  [w2 EXCEPT !.collectors[c].idleTimers =
                       IF w2.collectors[c].idleTimeout
                          /\ ~EmitThrows(w1, c, args)
                       THEN SetTimeout(ClearTimeout(@)) ELSE @,
                   !.collectors[c].idleLeft =
                       IF w2.collectors[c].idleTimeout
                          /\ ~EmitThrows(w1, c, args)
                       THEN w2.collectors[c].options.idle ELSE @,
                   !.collectors[c].timers =
                       IF w2.collectors[c].timeout
                       THEN SetTimeout(ClearTimeout(@)) ELSE @,
                   !.collectors[c].timeoutLeft =
                       IF w2.collectors[c].timeout
                       THEN w2.collectors[c].options.time ELSE @,
                   !.collectors[c].sinceAccept = 0]

\* an accept that leaves the idle timer running
Accept_KeepsIdle(w, c, args) ==
    LET w1 == [w EXCEPT !.collectors[c].collected = Append(@, args[1])]
        w2 == EmitCollect(w1, c, args)
    IN  [w2 EXCEPT !.collectors[c].sinceAccept = 0]

\* an accept that notifies before it appends
Accept_EmitsFirst(w, c, args) ==
    LET w1 == EmitCollect(w, c, args)
        w2 == [w1 EXCEPT !.collectors[c].collected = Append(@, args[1])]
    IN  [w2 EXCEPT !.collectors[c].idleTimers =
                       IF w2.collectors[c].idleTimeout
                          /\ ~EmitThrows(w1, c, args)
                       THEN SetTimeout(ClearTimeout(@)) ELSE @,
                   !.collectors[c].idleLeft =
                       IF w2.collectors[c].idleTimeout
                          /\ ~EmitThrows(w1, c, args)
                       THEN w2.collectors[c].options.idle ELSE @,
                   !.collectors[c].sinceAccept = 0]

\* an accept that schedules the idle timer whether or not one is pending
Accept_RearmsAlways(w, c, args) ==
    LET w1 == [w EXCEPT !.collectors[c].collected = Append(@, args[1])]
        w2 == EmitCollect(w1, c, args)
    IN  [w2 EXCEPT !.collectors[c].idleTimers =
                       IF w2.collectors[c].options.idle # 0
                          /\ ~EmitThrows(w1, c, args)
                       THEN SetTimeout(ClearTimeout(@)) ELSE @,
                   !.collectors[c].idleLeft =
                       IF w2.collectors[c].idleTimeout
                          /\ ~EmitThrows(w1, c, args)
                       THEN w2.collectors[c].options.idle ELSE @,
                   !.collectors[c].sinceAccept = 0]

\* handleCollect, after the filter answered accept
Accept(w, c, args) ==
    LET w1 == [w EXCEPT !.collectors[c].collected = Append(@, args[1])]
        w2 == EmitCollect(w1, c, args)
    IN  \* the idle timer is restarted when one is pending, unless the emit
        \* threw
        [w2 EXCEPT !.collectors[c].idleTimers =
                       IF w2.collectors[c].idleTimeout
                          /\ ~EmitThrows(w1, c, args)
                       THEN SetTimeout(ClearTimeout(@)) ELSE @,
                   !.collectors[c].idleLeft =
                       IF w2.collectors[c].idleTimeout
                          /\ ~EmitThrows(w1, c, args)
                       THEN w2.collectors[c].options.idle ELSE @,
                   !.collectors[c].sinceAccept = 0]

\* handleCollect resumes with the answer of the filter
ResumeFilter(k, accept) ==
    /\ k.pc = "filter"
    /\ collectors[k.c].filter = "default" => accept
    /\ calls' = calls \ {k}
    /\ SetWorld(IF ~accept THEN checkEnd(World, k.c)
                ELSE IF EmitThrows(World, k.c, <<Interaction(k.n)>>)
                THEN Accept(World, k.c, <<Interaction(k.n)>>)
                ELSE checkEnd(Accept(World, k.c, <<Interaction(k.n)>>), k.c))
    /\ UNCHANGED <<dispatched, deletions>>

\* a failing filter whose handleCollect goes on to checkEnd
FilterThrows_ChecksEnd(k) ==
    /\ k.pc = "filter"
    /\ collectors[k.c].filter = "function"
    /\ calls' = calls \ {k}
    /\ SetWorld(checkEnd(
           [World EXCEPT !.collectors[k.c].failed =
                Append(@, [n |-> k.n,
                           collected |-> Len(collectors[k.c].collected)])],
           k.c))
    /\ UNCHANGED <<dispatched, deletions>>

\* the filter of the caller throws, or the promise it returned rejects: the
\* await throws in handleCollect, which is left at once
FilterThrows(k) ==
    /\ k.pc = "filter"
    /\ collectors[k.c].filter = "function"
    /\ calls' = calls \ {k}
    /\ SetWorld(
           [World EXCEPT !.collectors[k.c].failed =
                Append(@, [n |-> k.n,
                           collected |-> Len(collectors[k.c].collected)])])
    /\ UNCHANGED <<dispatched, deletions>>

\* the turn of a job put at the end of the job queue, behind those of the
\* calls K
LastTurn(K) ==
    IF K = {} THEN 1
    ELSE 1 + (CHOOSE t \in {k.turn : k \in K} :
                  \A k \in K : k.turn <= t)

\* the client emits its next interactionCreate, to a filter that resolves
\* `delay` jobs after the job of its await: every registered handleCollect
\* runs up to its first await, whose continuation is queued as a job
Arrive(n, delay) ==
    /\ n = Cardinality(dispatched) + 1
    /\ \E c \in Collectors : <<"interactionCreate", c>> \in client.listeners
    /\ \A c \in Collectors :
           collect(collectors[c], Interaction(n)) # Throws
    /\ dispatched' = dispatched \cup {n}
    /\ calls' = calls \cup
           {[c |-> c, n |-> n, pc |-> "collect",
             collect |-> collect(collectors[c], Interaction(n)),
             delay |-> delay, wait |-> delay,
             turn |-> LastTurn(calls) + c - 1] :
                c \in {d \in Collectors :
                           <<"interactionCreate", d>> \in client.listeners}}
    /\ UNCHANGED <<collectors, client, promises, iter, deletions>>

\* a job queue that runs the newest job first
Job_NewestFirst(k, accept) ==
    /\ \A j \in calls : j.turn <= k.turn
    /\ IF k.pc = "collect" /\ k.collect # None
       THEN /\ calls' = (calls \ {k})
                            \cup {[k EXCEPT !.pc = "filter",
                                            !.turn = LastTurn(calls \ {k})]}
            /\ UNCHANGED <<collectors, client, promises, iter, dispatched,
                           deletions>>
       ELSE IF k.pc = "filter" /\ k.wait > 0
       THEN /\ calls' = (calls \ {k})
                            \cup {[k EXCEPT !.wait = @ - 1,
                                            !.turn = LastTurn(calls \ {k})]}
            /\ UNCHANGED <<collectors, client, promises, iter, dispatched,
                           deletions>>
       ELSE IF k.pc = "collect" THEN ResumeCollect(k)
       ELSE ResumeFilter(k, accept)

\* the job at the head of the job queue runs: the continuation of an await
\* of handleCollect, or a step of the filter's promise towards its
\* resolution; what it awaits next is queued behind the other jobs
Job(k, accept) ==
    /\ \A j \in calls : k.turn <= j.turn
    /\ IF k.pc = "collect" /\ k.collect # None
       THEN /\ calls' = (calls \ {k})
                            \cup {[k EXCEPT !.pc = "filter",
                                            !.turn = LastTurn(calls \ {k})]}
            /\ UNCHANGED <<collectors, client, promises, iter, dispatched,
                           deletions>>
       ELSE IF k.pc = "filter" /\ k.wait > 0
       THEN /\ calls' = (calls \ {k})
                            \cup {[k EXCEPT !.wait = @ - 1,
                                            !.turn = LastTurn(calls \ {k})]}
            /\ UNCHANGED <<collectors, client, promises, iter, dispatched,
                           deletions>>
       ELSE IF k.pc = "collect" THEN ResumeCollect(k)
       ELSE ResumeFilter(k, accept)

\* the time timer fires
TimeoutFires(c) ==
    /\ collectors[c].timers > 0
    /\ SetWorld(Stop([World EXCEPT !.collectors[c].timers = @ - 1],
                     c, "time"))
    /\ UNCHANGED <<calls, dispatched, deletions>>

\* the idle timer fires
IdleFires(c) ==
    /\ collectors[c].idleTimers > 0
    /\ SetWorld(Stop([World EXCEPT !.collectors[c].idleTimers = @ - 1],
                     c, "idle"))
    /\ UNCHANGED <<calls, dispatched, deletions>>

\* one tick of the clock: no timer is overdue, every pending timer is one
\* tick nearer; time is followed while some timer is pending
TimePasses ==
    /\ \E c \in Collectors :
           collectors[c].timeout \/ collectors[c].idleTimeout
    /\ \A c \in Collectors :
           /\ collectors[c].timeout => collectors[c].timeoutLeft > 0
           /\ collectors[c].idleTimeout => collectors[c].idleLeft > 0
    /\ collectors' =
           [c \in Collectors |->
               IF collectors[c].constructed /\ ~collectors[c].ended
               THEN [collectors[c] EXCEPT
                         !.timeoutLeft = IF collectors[c].timeout
                                         THEN @ - 1 ELSE @,
                         !.idleLeft = IF collectors[c].idleTimeout
                                      THEN @ - 1 ELSE @,
                         !.age = @ + 1,
                         !.sinceAccept = @ + 1]
               ELSE collectors[c]]
    /\ UNCHANGED <<client, promises, iter, calls, dispatched, deletions>>

\* the time timer is due and fires
TimeoutExpires(c) ==
    /\ collectors[c].timers > 0
    /\ collectors[c].timeoutLeft = 0
    /\ SetWorld(Stop([World EXCEPT !.collectors[c].timers = @ - 1],
                     c, "time"))
    /\ UNCHANGED <<calls, dispatched, deletions>>

\* the idle timer is due and fires
IdleExpires(c) ==
    /\ collectors[c].idleTimers > 0
    /\ collectors[c].idleLeft = 0
    /\ SetWorld(Stop([World EXCEPT !.collectors[c].idleTimers = @ - 1],
                     c, "idle"))
    /\ UNCHANGED <<calls, dispatched, deletions>>

\* collector.resetTimer({ time, idle })
ResetTimer(c, time, idle) ==
    /\ collectors[c].constructed
    /\ collectors[c].resets < MaxResets
    /\ SetWorld(resetTimer(World, c, time, idle))
    /\ UNCHANGED <<calls, dispatched, deletions>>

\* collector.empty()
Empty(c) ==
    /\ collectors[c].constructed
    /\ SetWorld(empty(World, c))
    /\ UNCHANGED <<calls, dispatched, deletions>>

\* collector.on("collect", ...) with a listener that stops the collector
ListenStop(c) ==
    /\ collectors[c].constructed
    /\ StopL \notin collectors[c].onCollect
    /\ collectors' = [collectors EXCEPT ![c].onCollect = @ \cup {StopL}]
    /\ UNCHANGED <<client, promises, iter, calls, dispatched, deletions>>

\* collector.handleCollect(interaction), called by the user
HandleCollect(c, n) ==
    /\ collectors[c].constructed
    /\ n \notin dispatched
    /\ Cardinality(dispatched) < MaxInteractions
    /\ collect(collectors[c], Interaction(n)) # Throws
    /\ dispatched' = dispatched \cup {n}
    /\ calls' = calls \cup
           {[c |-> c, n |-> n, pc |-> "collect",
             collect |-> collect(collectors[c], Interaction(n))]}
    /\ UNCHANGED <<collectors, client, promises, iter, deletions>>

\* collector.checkEnd(), called by the user
CheckEnd(c) ==
    /\ collectors[c].constructed
    /\ Len(collectors[c].checkEnds) <= MaxInteractions
    /\ SetWorld(checkEnd(World, c))
    /\ UNCHANGED <<calls, dispatched, deletions>>

\* the explicit stop() calls made so far
UserStops ==
    UNION {{<<d, j>> : j \in {i \in 1..Len(collectors[d].stopCalls) :
                                  collectors[d].stopCalls[i] = "user"}} :
           d \in Collectors}

\* collector.stop()
StopCall(c) ==
    /\ collectors[c].constructed
    /\ Cardinality(UserStops) < MaxStopCalls
    /\ SetWorld(Stop(World, c, "user"))
    /\ UNCHANGED <<calls, dispatched, deletions>>

\* the client emits the deletion event ev: every listener registered for it
\* runs
Deletion(ev, payload) ==
    /\ SetWorld(ClientEmit(World, client.listeners, 1, ev, payload))
    /\ UNCHANGED <<calls, dispatched>>

\* some collector listens to ev (an event nobody listens to changes nothing)
Listened(ev) ==
    /\ deletions < MaxDeletions
    /\ \E c \in Collectors : <<ev, c>> \in client.listeners

MessageDelete ==
    \E m \in Messages :
        /\ Listened("messageDelete")
        /\ deletions' = deletions + 1
        /\ Deletion("messageDelete", m)

MessageDeleteBulk ==
    \E ms \in BulkMessages :
        /\ Listened("messageDeleteBulk")
        /\ deletions' = deletions + 1
        /\ Deletion("messageDeleteBulk", ms)

ChannelDelete ==
    \E ch \in Channels :
        /\ Listened("channelDelete")
        /\ deletions' = deletions + 1
        /\ Deletion("channelDelete", ch)

ThreadDelete ==
    \E th \in Threads :
        /\ Listened("threadDelete")
        /\ deletions' = deletions + 1
        /\ Deletion("threadDelete", th)

GuildDelete ==
    \E g \in Guilds :
        /\ Listened("guildDelete")
        /\ deletions' = deletions + 1
        /\ Deletion("guildDelete", g)

\* the operations of the collectors C and the events of the client
Core(C, Opts, Ns) ==
    \/ \E c \in C, o \in Opts : Construct(c, o)
    \/ \E n \in Ns : InteractionCreate(n)
    \/ \E k \in calls : ResumeCollect(k)
    \/ \E k \in calls, accept \in BOOLEAN : ResumeFilter(k, accept)
    \/ \E c \in C : TimeoutFires(c)
    \/ \E c \in C : IdleFires(c)
    \/ \E c \in C : StopCall(c)
    \/ MessageDelete
    \/ MessageDeleteBulk
    \/ ChannelDelete
    \/ ThreadDelete
    \/ GuildDelete

\* a `next` that does not look at `ended`
next_NoEndedCheck(w, c, p) ==
    [w EXCEPT !.promises[c][p] =
                  [NoPromise EXCEPT !.state = "pending",
                                    !.obtainedAt = Len(w.collectors[c].log)],
              !.collectors[c].onCollect = @ \cup {NextL(p)},
              !.collectors[c].onEnd = @ \cup {NextL(p)}]

\* get next
next(w, c, p) ==
    LET obtained == [w EXCEPT !.promises[c][p] =
                         [NoPromise EXCEPT
                              !.state = "pending",
                              !.obtainedAt = Len(w.collectors[c].log)]]
    IN  IF w.collectors[c].ended
        THEN [obtained EXCEPT !.promises[c][p] =
                  Settle(@, "rejected", w.collectors[c].collected)]
        ELSE [obtained EXCEPT !.collectors[c].onCollect = @ \cup {NextL(p)},
                              !.collectors[c].onEnd = @ \cup {NextL(p)}]

\* a caller reads `next`
GetNext(c, p) ==
    /\ collectors[c].constructed
    /\ promises[c][p].state = "none"
    /\ \A q \in 1..(p - 1) : promises[c][q].state # "none"
    /\ SetWorld(next(World, c, p))
    /\ UNCHANGED <<calls, dispatched, deletions>>

\* a finally block that removes nothing
IterFinally_Noop(w, c) == w

\* asyncIterator: the finally block
IterFinally(w, c) ==
    [w EXCEPT !.collectors[c].onCollect = @ \ {IterL}]

\* asyncIterator: the while loop, run up to its next yield or await or its end
IterLoop(w, c) ==
    LET it == w.iter[c]
    IN  IF Len(it.queue) > 0 \/ ~w.collectors[c].ended
        THEN IF Len(it.queue) > 0
             THEN [w EXCEPT !.iter[c].state = "yield",
                            !.iter[c].queue = Tail(@),
                            !.iter[c].yielded = Append(@, Head(it.queue))]
             ELSE [w EXCEPT !.iter[c].state = "await",
                            !.collectors[c].onCollect = @ \cup {TickL},
                            !.collectors[c].onEnd = @ \cup {TickL}]
        ELSE IterFinally([w EXCEPT !.iter[c].state = "done"], c)

\* asyncIterator: the first next() runs the body from its start
IterBody(w, c) ==
    IterLoop([w EXCEPT !.iter[c].startAt = Len(w.collectors[c].log),
                       !.collectors[c].onCollect = @ \cup {IterL}], c)

\* the consumer starts a for-await loop over the collector
IterStart(c) ==
    /\ collectors[c].constructed
    /\ iter[c].state = "unstarted"
    /\ SetWorld(IterBody(World, c))
    /\ UNCHANGED <<calls, dispatched, deletions>>

\* the generator resumes after tick resolved the promise it awaited
IterResume(c) ==
    /\ iter[c].state = "resumable"
    /\ SetWorld(IterLoop(World, c))
    /\ UNCHANGED <<calls, dispatched, deletions>>

\* the consumer finished with the yielded value and asks for the next one
IterNext(c) ==
    /\ iter[c].state = "yield"
    /\ SetWorld(IterLoop(World, c))
    /\ UNCHANGED <<calls, dispatched, deletions>>

\* the consumer breaks out of the loop: return() at the yield
IterReturn(c) ==
    /\ iter[c].state = "yield"
    /\ SetWorld(IterFinally([World EXCEPT !.iter[c].state = "returned"], c))
    /\ UNCHANGED <<calls, dispatched, deletions>>

\* the consumers of collector c
Promises(c) == \E p \in 1..MaxNext : GetNext(c, p)

Iteration(c) ==
    \/ IterStart(c)
    \/ IterResume(c)
    \/ IterNext(c)
    \/ IterReturn(c)

\* one collector and the callers of `next`
Next == Core({1}, Options, Interactions) \/ Promises(1)

Spec == Init /\ [][Next]_vars

\* one collector consumed by a for-await loop
NextIter == Core({1}, Options, Interactions) \/ Iteration(1)

SpecIter == Init /\ [][NextIter]_vars

\* several collectors on the client
NextMulti == Core(Collectors, SharedOptions, SharedInteractions)

SpecMulti == Init /\ [][NextMulti]_vars

\* one collector whose timers run on the clock; the clock advances and a due
\* timer fires
NextTimed ==
    \/ \E o \in TimedOptions : Construct(1, o)
    \/ \E n \in TimedInteractions : InteractionCreate(n)
    \/ \E k \in calls : ResumeCollect(k)
    \/ \E k \in calls, accept \in BOOLEAN : ResumeFilter(k, accept)
    \/ TimePasses
    \/ TimeoutExpires(1)
    \/ IdleExpires(1)
    \/ \E time \in Durations, idle \in Durations : ResetTimer(1, time, idle)
    \/ StopCall(1)

SpecTimed ==
    /\ Init
    /\ [][NextTimed]_vars
    /\ WF_vars(TimePasses)
    /\ WF_vars(TimeoutExpires(1))
    /\ WF_vars(IdleExpires(1))

\* one collector the events reach one at a time
NextSeq ==
    \/ \E o \in Options : Construct(1, o)
    \/ \E n \in SeqInteractions : Delivery(n)
    \/ \E k \in calls : ResumeCollect(k)
    \/ \E k \in calls, accept \in BOOLEAN : ResumeFilter(k, accept)
    \/ StopCall(1)

SpecSeq == Init /\ [][NextSeq]_vars

\* one collector and a caller of empty()
NextEmpty == Core({1}, Options, Interactions) \/ Empty(1)

SpecEmpty == Init /\ [][NextEmpty]_vars

\* one collector with any configuration of the dimensions, one event, and a
\* caller of dispose
NextHooks ==
    \/ \E o \in HookOptions : Construct(1, o)
    \/ \E n \in HookInteractions : HookEvent(n)
    \/ \E k \in calls : ResumeCollect(k)
    \/ \E k \in calls, accept \in BOOLEAN : ResumeFilter(k, accept)
    \/ \E n \in HookInteractions : Dispose(1, n)

SpecHooks == Init /\ [][NextHooks]_vars

\* one collector constructed with or without a filter, or with a value that
\* is not a function
NextCtor == Core({1}, CtorOptions, Interactions)

SpecCtor == Init /\ [][NextCtor]_vars

\* one collector and an event source whose payloads may lack fields
NextMalformed ==
    \/ \E o \in Options : Construct(1, o)
    \/ \E n \in MalformedInteractions : BoundedEvent(n)
    \/ \E k \in calls : ResumeCollect(k)
    \/ \E k \in calls, accept \in BOOLEAN : ResumeFilter(k, accept)
    \/ StopCall(1)

SpecMalformed == Init /\ [][NextMalformed]_vars

\* one collector whose timers are followed in the runtime, with every call
\* the user can make on it
NextTimers ==
    \/ \E o \in Options : Construct(1, o)
    \/ \E n \in TimedInteractions : BoundedEvent(n)
    \/ \E n \in TimedInteractions : HandleCollect(1, n)
    \/ \E k \in calls : ResumeCollect(k)
    \/ \E k \in calls, accept \in BOOLEAN : ResumeFilter(k, accept)
    \/ TimeoutFires(1)
    \/ IdleFires(1)
    \/ StopCall(1)
    \/ CheckEnd(1)
    \/ ListenStop(1)
    \/ \E time \in Durations, idle \in Durations : ResetTimer(1, time, idle)

SpecTimers == Init /\ [][NextTimers]_vars

\* one collector whose filter may fail
NextFilter ==
    \/ Core({1}, Options, Interactions)
    \/ \E k \in calls : FilterThrows(k)

SpecFilter == Init /\ [][NextFilter]_vars

\* one collector whose handleCollect calls are resumed by the job queue, in
\* the order their jobs were queued
NextQueue ==
    \/ \E o \in Options : Construct(1, o)
    \/ \E n \in SeqInteractions, delay \in 0..MaxDelay : Arrive(n, delay)
    \/ \E k \in calls, accept \in BOOLEAN : Job(k, accept)
    \/ StopCall(1)

SpecQueue == Init /\ [][NextQueue]_vars

\* the collectors sharing the client, ended by a limit, a timer, a stop()
\* call or the deletion of a message or of a guild
NextShared ==
    \/ \E c \in Collectors, o \in SharedOptions : Construct(c, o)
    \/ \E n \in SharedInteractions : InteractionCreate(n)
    \/ \E k \in calls : ResumeCollect(k)
    \/ \E k \in calls, accept \in BOOLEAN : ResumeFilter(k, accept)
    \/ \E c \in Collectors : TimeoutFires(c)
    \/ \E c \in Collectors : IdleFires(c)
    \/ \E c \in Collectors : StopCall(c)
    \/ MessageDelete
    \/ GuildDelete

SpecShared == Init /\ [][NextShared]_vars

\* ------------------------------------------------------------- properties
IsCollect(n) == n.type = "collect"
IsEnd(n) == n.type = "end"

\* the fields of a collector without the record of the stop calls made
Fields(col) == [col EXCEPT !.stopCalls = <<>>]

C1_Inv ==
    \A c \in Collectors :
        LET col == collectors[c]
            ends == SelectSeq(col.log, IsEnd)
        IN  /\ col.ended <=> col.stopCalls # <<>>
            /\ Len(ends) = IF col.stopCalls = <<>> THEN 0 ELSE 1
            /\ col.stopCalls # <<>> => ends[1].reason = col.stopCalls[1]

C1_Step ==
    \A c \in Collectors :
        collectors[c].ended =>
            /\ collectors'[c].ended
            /\ (/\ calls' = calls
                /\ collectors'[c].stopCalls # collectors[c].stopCalls)
               => /\ Fields(collectors'[c]) = Fields(collectors[c])
                  /\ client' = client
                  /\ promises' = promises
                  /\ iter' = iter

\* C1: whatever the triggers that call stop, `ended` becomes true with the
\* first stop call and never reverts, exactly one `end` notification is
\* emitted, it carries the reason of the first stop call, and a stop call on
\* an ended collector changes nothing
C1_StopOnce == []C1_Inv /\ [][C1_Step]_vars

C1_Witness ==
    \E c \in Collectors :
        /\ collectors[c].ended
        /\ Len(collectors[c].stopCalls) >= 2
        /\ collectors[c].stopCalls[1] # collectors[c].stopCalls[2]

\* C2: the sequence carried by the `end` notification is final: after it no
\* item is appended to `collected` and no `collect` notification is emitted
C2_EndIsFinal ==
    \A c \in Collectors :
        \A k \in 1..Len(collectors[c].log) :
            collectors[c].log[k].type = "end" =>
                /\ collectors[c].collected = collectors[c].log[k].collected
                /\ \A j \in (k + 1)..Len(collectors[c].log) :
                       collectors[c].log[j].type # "collect"

\* C3: a collector configured with max = N >= 1 never holds more than N
\* items and never counts more than N interactions
C3_AtMostMax ==
    \A c \in Collectors :
        collectors[c].options.max >= 1 =>
            /\ Len(collectors[c].collected) <= collectors[c].options.max
            /\ collectors[c].total <= collectors[c].options.max

\* C4: an ended collector has no listener left on the client, whatever ended
\* it, and its end handler has run exactly once
C4_NoClientListenerLeft ==
    \A c \in Collectors :
        /\ collectors[c].ended =>
               /\ \A ev \in ClientEvents : <<ev, c>> \notin client.listeners
               /\ collectors[c].cleanups = 1
        /\ ~collectors[c].ended => collectors[c].cleanups = 0

C4_Witness ==
    \E c \in Collectors :
        /\ collectors[c].ended
        /\ Len(collectors[c].stopCalls) >= 2
        /\ collectors[c].stopCalls[1] \in
               {"messageDelete", "channelDelete", "threadDelete", "guildDelete"}
        /\ collectors[c].guildID # None

\* C5: the listener budget of the client is its initial value plus the
\* number of collectors constructed and not yet ended; every collector takes
\* one unit at construction and gives it back once, at its end
C5_BudgetBalanced ==
    /\ client.maxListeners = DefaultMaxListeners
           + Cardinality({c \in Collectors : /\ collectors[c].constructed
                                             /\ ~collectors[c].ended})
    /\ \A c \in Collectors :
           collectors[c].cleanups = IF collectors[c].ended THEN 1 ELSE 0

C5_Witness ==
    \E c, d \in Collectors :
        /\ collectors[c].ended
        /\ collectors[c].stopCalls[1] = "limit"
        /\ collectors[d].constructed
        /\ ~collectors[d].ended
        /\ c < d

C6_Step ==
    \A c \in Collectors, p \in 1..MaxNext :
        (/\ collectors[c].ended
         /\ promises[c][p].state = "none"
         /\ promises'[c][p].state # "none")
        => /\ promises'[c][p].state = "rejected"
           /\ promises'[c][p].value = collectors[c].collected
           /\ collectors' = collectors
           /\ client' = client
           /\ iter' = iter

\* C6: `next` read on an ended collector gives a promise already rejected
\* with the current `collected`; no listener is registered and no collector
\* state changes
C6_NextOnEnded == [][C6_Step]_vars

C6_Witness ==
    \E c \in Collectors, p \in 1..MaxNext :
        /\ promises[c][p].state = "rejected"
        /\ \E k \in 1..promises[c][p].obtainedAt :
               collectors[c].log[k].type = "end"
        /\ Len(promises[c][p].value) >= 1

\* C7: a `next` promise obtained before the end is settled by the first
\* notification emitted after it was obtained: resolved with the accepted
\* item by a `collect`, rejected with `collected` by an `end`; until then it
\* is pending with both listeners registered, afterwards neither listener
\* is registered
C7_NextSettledByFirst ==
    \A c \in Collectors, p \in 1..MaxNext :
        LET pr == promises[c][p]
            col == collectors[c]
            after == SubSeq(col.log, pr.obtainedAt + 1, Len(col.log))
        IN  (/\ pr.state # "none"
             /\ \A k \in 1..pr.obtainedAt : col.log[k].type # "end")
            => IF after = <<>>
               THEN /\ pr.state = "pending"
                    /\ NextL(p) \in col.onCollect
                    /\ NextL(p) \in col.onEnd
               ELSE /\ NextL(p) \notin col.onCollect \cup col.onEnd
                    /\ IF after[1].type = "collect"
                       THEN /\ pr.state = "resolved"
                            /\ pr.value = after[1].args[1]
                            /\ \E j \in 1..Len(col.collected) :
                                   col.collected[j] = pr.value
                       ELSE /\ pr.state = "rejected"
                            /\ pr.value = after[1].collected

C7_Witness ==
    \E c \in Collectors, p \in 1..MaxNext :
        LET pr == promises[c][p]
            log == collectors[c].log
        IN  /\ pr.state = "resolved"
            /\ Len(log) >= pr.obtainedAt + 2
            /\ log[pr.obtainedAt + 1].type = "collect"
            /\ log[pr.obtainedAt + 2].type = "end"
            /\ log[pr.obtainedAt + 2].reason = "limit"

\* the `collect` notifications emitted since the iteration started
Notified(c) ==
    SelectSeq(SubSeq(collectors[c].log, iter[c].startAt + 1,
                     Len(collectors[c].log)), IsCollect)

\* the value v stands for the notification n: its item, bare or wrapped
Carries(v, n) == v = n.args[1] \/ v = n.args

\* C8: an iteration started before the end yields one value per `collect`
\* notification emitted since it started, in order; it finishes once the
\* collector has ended and the queue is drained, and is never left waiting
\* on an ended collector
C8_IterationYieldsAll ==
    \A c \in Collectors :
        LET it == iter[c]
            seen == it.yielded \o it.queue
        IN  (/\ it.state \notin {"unstarted", "returned"}
             /\ \A k \in 1..it.startAt : collectors[c].log[k].type # "end")
            => /\ Len(seen) = Len(Notified(c))
               /\ \A k \in 1..Len(seen) : Carries(seen[k], Notified(c)[k])
               /\ it.state = "done" => it.queue = <<>>
               /\ collectors[c].ended => it.state # "await"

\* C9: every value the iteration yields is an accepted item itself, an
\* element of `collected`
C9_YieldsItems ==
    \A c \in Collectors :
        \A k \in 1..Len(iter[c].yielded) :
            \E j \in 1..Len(collectors[c].collected) :
                iter[c].yielded[k] = collectors[c].collected[j]

\* C10: a finished iteration, completed or left early at a yield, leaves
\* none of its listeners on the collector
C10_IterationDetached ==
    \A c \in Collectors :
        iter[c].state \in {"done", "returned"} =>
            /\ IterL \notin collectors[c].onCollect
            /\ TickL \notin collectors[c].onCollect \cup collectors[c].onEnd

C10_Witness ==
    \E c \in Collectors :
        /\ iter[c].state = "returned"
        /\ ~collectors[c].ended
        /\ Len(iter[c].queue) >= 1
C11_Inv ==
    \A c \in Collectors :
        LET col == collectors[c]
        IN  (col.constructed /\ col.options.time # 0 /\ col.resets = 0)
            => /\ col.age <= col.options.time
               /\ ~col.ended =>
                      /\ col.timeout
                      /\ col.timeoutLeft = col.options.time - col.age
               /\ \A k \in 1..Len(col.stopCalls) :
                      col.stopCalls[k] = "time" =>
                          /\ k = 1
                          /\ col.age = col.options.time

C11_Live ==
    \A c \in Collectors :
        (/\ collectors[c].constructed
         /\ collectors[c].options.time # 0
         /\ collectors[c].resets = 0)
        ~> (collectors[c].ended \/ collectors[c].resets > 0)

\* C11: a collector constructed with time T > 0 on which resetTimer is never
\* called keeps its time timer due exactly T after the construction, whatever
\* events are accepted or rejected meanwhile: the timer stops it with "time"
\* at T and not before, and the collector is ended by then at the latest
C11_TimeEndsAtT == []C11_Inv /\ C11_Live

C11_Witness ==
    \E c \in Collectors :
        /\ collectors[c].stopCalls = <<"time">>
        /\ collectors[c].options.time = MaxTime
        /\ collectors[c].age = MaxTime
        /\ Len(collectors[c].collected) = 1
        /\ collectors[c].sinceAccept < collectors[c].age
        /\ Cardinality(dispatched) = 2
        /\ calls = {}

C12_Inv ==
    \A c \in Collectors :
        LET col == collectors[c]
        IN  (/\ col.constructed /\ col.options.idle # 0
             /\ col.resets = 0 /\ ~col.ended)
            => /\ col.idleTimeout
               /\ col.sinceAccept <= col.options.idle
               /\ col.idleLeft = col.options.idle - col.sinceAccept

C12_Step ==
    \A c \in Collectors :
        LET col == collectors[c]
            after == collectors'[c]
        IN  /\ \* an accepted item restarts a pending idle timer in full
               (Len(after.collected) > Len(col.collected) /\ ~after.ended)
               => /\ after.idleTimeout = col.idleTimeout
                  /\ col.idleTimeout => after.idleLeft = col.options.idle
            /\ \* nothing but an accepted item, the clock or resetTimer
               \* moves it
               (/\ after.collected = col.collected /\ after.age = col.age
                /\ after.resets = col.resets /\ ~after.ended
                /\ col.constructed)
               => /\ after.idleTimeout = col.idleTimeout
                  /\ after.idleLeft = col.idleLeft
            /\ \* the idle timer stops the collector when the window is over
               (/\ Len(after.stopCalls) > Len(col.stopCalls)
                /\ after.stopCalls[Len(after.stopCalls)] = "idle"
                /\ col.resets = 0)
               => /\ ~col.ended
                  /\ col.sinceAccept = col.options.idle

C12_Live ==
    \A c \in Collectors :
        (/\ collectors[c].constructed
         /\ collectors[c].options.idle # 0
         /\ collectors[c].resets = 0)
        ~> (collectors[c].ended \/ collectors[c].resets > 0)

\* C12: a collector constructed with idle I > 0 starts its idle timer at the
\* construction; every accepted item restarts it with the full window and no
\* rejected event moves it; without resetTimer it stops the collector with
\* "idle" exactly I after the last accepted item (or the construction), and
\* the collector is ended by then at the latest
C12_IdleEndsAfterI == []C12_Inv /\ [][C12_Step]_vars /\ C12_Live

C12_Witness ==
    \E c \in Collectors :
        /\ collectors[c].stopCalls = <<"idle">>
        /\ collectors[c].options.idle = MaxTime
        /\ collectors[c].sinceAccept = MaxTime
        /\ collectors[c].age > MaxTime
        /\ Len(collectors[c].collected) = 1
        /\ Cardinality(dispatched) = 2
        /\ calls = {}

\* C13: resetTimer({time, idle}), called in any reachable state with any
\* overrides, reschedules each pending timer with the override when one is
\* given and with the configured duration otherwise; it creates no timer
\* for a dimension that has none pending (never configured, or the collector
\* has ended) and leaves `collected`, `ended`, the notifications and
\* everything else as they were
C13_ResetTimerFrame ==
    \A c \in Collectors, time \in Durations, idle \in Durations :
        LET col == collectors[c]
            w == resetTimer(World, c, time, idle)
            after == w.collectors[c]
        IN  col.constructed
            => /\ after.timeout = col.timeout
               /\ after.idleTimeout = col.idleTimeout
               /\ after.timeoutLeft =
                      IF ~col.timeout THEN col.timeoutLeft
                      ELSE IF time # NoDuration THEN time
                      ELSE col.options.time
               /\ after.idleLeft =
                      IF ~col.idleTimeout THEN col.idleLeft
                      ELSE IF idle # NoDuration THEN idle
                      ELSE col.options.idle
               /\ col.options.time = 0 => ~after.timeout
               /\ col.options.idle = 0 => ~after.idleTimeout
               /\ col.ended => ~after.timeout /\ ~after.idleTimeout
               /\ after.collected = col.collected
               /\ after.ended = col.ended
               /\ after.log = col.log
               /\ [after EXCEPT !.timeoutLeft = col.timeoutLeft,
                                !.idleLeft = col.idleLeft,
                                !.resets = col.resets] = col
               /\ [w EXCEPT !.collectors[c] = col] = World

C13_Witness ==
    \E c \in Collectors :
        /\ collectors[c].resets >= 1
        /\ ~collectors[c].ended
        /\ collectors[c].options.time = 1
        /\ collectors[c].options.idle = 0
        /\ collectors[c].timeoutLeft = MaxTime
        /\ ~collectors[c].idleTimeout

\* the fields of a collector without the record of the checkEnd calls made
Unchecked(col) == [col EXCEPT !.checkEnds = <<>>]

C14_Step ==
    \A c \in Collectors :
        LET col == collectors[c]
            after == collectors'[c]
            returned == after.checkEnds[Len(after.checkEnds)]
        IN  /\ \* a completing handleCollect has called checkEnd once
               (\E k \in calls \ calls' :
                    k.c = c /\ \A j \in calls' : j.c = k.c => j.n # k.n)
               => Len(after.checkEnds) = Len(col.checkEnds) + 1
            /\ Len(after.checkEnds) > Len(col.checkEnds)
               => /\ returned <=> endReason(after) # None
                  /\ returned =>
                         after.stopCalls =
                             Append(col.stopCalls, endReason(after))
                  /\ ~returned => after.stopCalls = col.stopCalls
                  /\ (~returned /\ after.collected = col.collected)
                     => /\ Unchecked(after) = Unchecked(col)
                        /\ client' = client
                        /\ promises' = promises
                        /\ iter' = iter

C14_Inv ==
    \A c \in Collectors :
        LET col == collectors[c]
            N == col.options.max
            last == Len(col.log)
        IN  N >= 1
            => /\ col.total = Len(col.collected)
               /\ Len(col.collected) <= N
               /\ Len(col.collected) = N
                  <=> \E k \in 1..Len(col.stopCalls) :
                          col.stopCalls[k] = "limit"
               /\ Len(col.collected) = N => col.ended
               /\ (col.stopCalls # <<>> /\ col.stopCalls[1] = "limit")
                  => /\ last = N + 1
                     /\ col.log[last].type = "end"
                     /\ col.log[last].reason = "limit"
                     /\ col.log[last].collected = col.collected
                     /\ col.log[N].type = "collect"
                     /\ col.log[N].args[1] = col.collected[N]

\* C14: checkEnd returns true exactly when endReason is non-null, and then
\* it has called stop with that reason; otherwise it changes nothing.  Every
\* completing handleCollect calls it, for accepted and rejected events
\* alike, so that when the events are delivered one at a time a collector
\* with max = N is ended with "limit" right after its N-th accepted
\* interaction and not earlier
C14_CheckEndAfterEach == []C14_Inv /\ [][C14_Step]_vars

C14_Witness ==
    \E c \in Collectors :
        /\ collectors[c].options.max = MaxLimit
        /\ collectors[c].stopCalls = <<"limit">>
        /\ Len(collectors[c].collected) = MaxLimit
        /\ Len(collectors[c].checkEnds) = MaxLimit + 1
        /\ collectors[c].checkEnds[MaxLimit + 1]

\* C15: endReason is "limit" if total >= max; otherwise "componentLimit" if
\* the number of accumulated interactions >= maxComponents; otherwise
\* "userLimit" if the number of distinct users >= maxUsers; otherwise null
C15_EndReasonOrder ==
    \A c \in Collectors :
        LET col == collectors[c]
        IN  col.constructed
            => endReason(col) =
                   IF col.options.max # 0 /\ col.total >= col.options.max
                   THEN "limit"
                   ELSE IF col.options.maxComponents # 0
                           /\ Len(col.collected) >= col.options.maxComponents
                   THEN "componentLimit"
                   ELSE IF col.options.maxUsers # 0
                           /\ Cardinality({e[1] : e \in col.users})
                                  >= col.options.maxUsers
                   THEN "userLimit"
                   ELSE None

\* C16: empty(), called in any reachable state, resets `total` to 0, clears
\* `collected` and `users` and then re-evaluates checkEnd; on a collector
\* configured with max: 0 and nothing else it thereby stops the collector
\* with "limit" (an absent limit and a limit of 0 are both falsy and are
\* represented alike)
C16_EmptyResets ==
    \A c \in Collectors :
        LET col == collectors[c]
            after == empty(World, c).collectors[c]
        IN  col.constructed
            => /\ after.total = 0
               /\ after.collected = <<>>
               /\ after.users = {}
               /\ after.thrown = col.thrown
               /\ Len(after.checkEnds) = Len(col.checkEnds) + 1
               /\ (col.options = WithFilter([NoOptions EXCEPT !.max = 0])
                   /\ ~col.ended)
                  => /\ after.ended
                     /\ after.stopCalls = Append(col.stopCalls, "limit")

\* every dimension the collector has an id or a type configured for is
\* matched by the interaction; an absent message matches no configured id
Matches(col, i) ==
    /\ col.interactionType # None => i.type = col.interactionType
    /\ col.componentType # None => i.componentType = col.componentType
    /\ col.messageID # None
       => i.message.id # None /\ i.message.id = col.messageID
    /\ col.messageInteractionID # None
       => /\ i.message.interaction.id # None
          /\ i.message.interaction.id = col.messageInteractionID
    /\ col.channelID # None => i.channelID = col.channelID
    /\ col.guildID # None => i.guildID = col.guildID

\* C17: collect(interaction) returns the id of the interaction exactly when
\* every configured dimension matches (interaction type, component type,
\* message id, message-interaction id, channel id, guild id) and null
\* otherwise; a dimension that is not configured rejects nothing; an
\* interaction without a message is rejected when a message id or a
\* message-interaction id is configured
C17_CollectMatches ==
    \A c \in Collectors, n \in HookInteractions :
        LET col == collectors[c]
            i == Interaction(n)
        IN  /\ col.constructed
               => collect(col, i) = IF Matches(col, i) THEN i.id ELSE None
            /\ \A k \in calls :
                   (k.c = c /\ k.n = n /\ col.options = NoOptions)
                   => k.collect = i.id

C17_Witness ==
    \E k \in calls :
        /\ k.n = 19
        /\ k.collect = None
        /\ collectors[k.c].messageID = None
        /\ collectors[k.c].messageInteractionID # None
        /\ collectors[k.c].channelID # None

\* C18: dispose(interaction) returns what collect(interaction) returns, for
\* every configuration and every interaction
C18_DisposeAsCollect ==
    \A c \in Collectors, n \in HookInteractions :
        /\ collectors[c].constructed
           => dispose(collectors[c], Interaction(n))
                  = collect(collectors[c], Interaction(n))
        /\ collectors[c].disposed.n = n
           => collectors[c].disposed.result
                  = collect(collectors[c], Interaction(n))

\* the deletion events the client can emit
DeletionEvents ==
    {[ev |-> "messageDelete", payload |-> m] : m \in Messages}
    \cup {[ev |-> "messageDeleteBulk", payload |-> ms] : ms \in BulkMessages}
    \cup {[ev |-> "channelDelete", payload |-> ch] : ch \in Channels}
    \cup {[ev |-> "threadDelete", payload |-> th] : th \in Threads}
    \cup {[ev |-> "guildDelete", payload |-> g] : g \in Guilds}

\* the cases in which a deletion event concerns a collector
DeletionMatches(col, e) ==
    CASE e.ev = "messageDelete" ->
             \/ col.messageID # None /\ e.payload.id = col.messageID
             \/ /\ col.messageInteractionID # None
                /\ e.payload.interaction.id = col.messageInteractionID
      [] e.ev = "messageDeleteBulk" ->
             col.messageID # None /\ col.messageID \in e.payload
      [] e.ev = "channelDelete" ->
             /\ col.channelID # None
             /\ \/ e.payload.id = col.channelID
                \/ col.channelID \in e.payload.threads
      [] e.ev = "threadDelete" ->
             col.channelID # None /\ e.payload.id = col.channelID
      [] e.ev = "guildDelete" ->
             col.guildID # None /\ e.payload.id = col.guildID

\* the reason a deletion event stops a collector with
DeletionReason(e) ==
    IF e.ev = "messageDeleteBulk" THEN "messageDelete" ELSE e.ev

\* C19: a deletion event emitted by the client in any reachable state stops
\* a collector that has not ended exactly when it concerns the collector:
\* messageDelete of the message messageID or of a message originating from
\* the interaction messageInteractionID and messageDeleteBulk containing
\* messageID ("messageDelete"), channelDelete of the channel channelID or of
\* a channel whose threads include it ("channelDelete"), threadDelete of
\* channelID ("threadDelete"), guildDelete of guildID ("guildDelete"); any
\* other event, or an event for a dimension without a configured id, leaves
\* the collector as it was
C19_DeletionStops ==
    \A e \in DeletionEvents :
        LET w == ClientEmit(World, client.listeners, 1, e.ev, e.payload)
        IN  /\ \A c \in Collectors :
                   LET col == collectors[c]
                       after == w.collectors[c]
                   IN  IF /\ col.constructed /\ ~col.ended
                          /\ DeletionMatches(col, e)
                       THEN /\ after.ended
                            /\ after.stopCalls[Len(col.stopCalls) + 1]
                                   = DeletionReason(e)
                            /\ after.log =
                                   Append(col.log,
                                          Notification("end", <<>>,
                                                       col.collected,
                                                       DeletionReason(e)))
                            /\ after.collected = col.collected
                            /\ ~after.timeout /\ ~after.idleTimeout
                       ELSE after = col
            /\ (\A c \in Collectors :
                    ~DeletionMatches(collectors[c], e) \/ collectors[c].ended)
               => w = World

C19_Witness ==
    \E c \in Collectors :
        /\ collectors[c].stopCalls = <<"threadDelete">>
        /\ collectors[c].channelID # None
        /\ collectors[c].guildID # None
        /\ collectors[c].ended
        /\ deletions = 1

C20_Inv ==
    \A c \in Collectors :
        LET col == collectors[c]
        IN  /\ col.options.filter \notin {None, "function"}
               => /\ ~col.constructed
                  /\ col.thrown = "TypeError"
                  /\ ~col.timeout /\ ~col.idleTimeout
                  /\ \A ev \in ClientEvents : <<ev, c>> \notin client.listeners
                  /\ col.cleanups = 0
            /\ (col.constructed /\ col.options.filter = None)
               => col.filter = "default"
            /\ client.maxListeners = DefaultMaxListeners
                   + Cardinality({d \in Collectors :
                                      /\ collectors[d].constructed
                                      /\ ~collectors[d].ended})

C20_Step ==
    \A k \in calls \ calls' :
        (k.pc = "filter" /\ collectors[k.c].options.filter = None)
        => collectors'[k.c].collected =
               Append(collectors[k.c].collected, Interaction(k.n))

\* C20: constructing a collector with a `filter` that is not a function
\* fails at the construction with a type error: no timer is scheduled, no
\* listener is registered on the client and the listener budget is not
\* incremented; a collector constructed without a filter accepts every
\* event its collect hook lets through
C20_FilterValidated == []C20_Inv /\ [][C20_Step]_vars

C20_Witness ==
    \E c \in Collectors :
        /\ collectors[c].thrown = "TypeError"
        /\ ~collectors[c].constructed
        /\ collectors[c].options.filter = "string"
        /\ collectors[c].options.time # 0
        /\ collectors[c].options.message.id # None

C21_Inv ==
    \A c \in Collectors :
        collectors[c].constructed => collectors[c].thrown = None

C21_Step ==
    \A k \in calls \ calls' :
        LET col == collectors[k.c]
            after == collectors'[k.c]
        IN  k.collect = None
            => /\ after.collected = col.collected
               /\ after.total = col.total
               /\ after.users = col.users
               /\ after.ended = col.ended

\* C21: no handleCollect call fails, whatever fields the payload of the
\* event lacks (no payload at all, no message, user, channel id or guild
\* id), and a call whose payload is not matched leaves `collected`, `total`,
\* `users` and `ended` as they were
C21_NoFailureOnMalformed == []C21_Inv /\ [][C21_Step]_vars

\* C22: endReason is null as long as the collector has not ended, and once
\* it has ended it is the reason carried by the `end` notification, whatever
\* ended the collector
C22_EndReasonIsReason ==
    \A c \in Collectors :
        LET col == collectors[c]
            ends == SelectSeq(col.log, IsEnd)
        IN  col.constructed
            => IF ~col.ended THEN endReason(col) = None
               ELSE endReason(col) = ends[1].reason

\* C23: in every state between operations `collected` has one element per
\* `collect` notification emitted so far, the i-th element being the first
\* argument of the i-th notification; when the i-th notification is emitted
\* `collected` holds exactly the first i items, so each item is appended
\* before it is notified and nothing is appended or notified in between
C23_CollectedLockstep ==
    \A c \in Collectors :
        LET col == collectors[c]
            notes == SelectSeq(col.log, IsCollect)
        IN  /\ Len(col.collected) = Len(notes)
            /\ \A i \in 1..Len(notes) :
                   /\ notes[i].args[1] = col.collected[i]
                   /\ notes[i].collected = SubSeq(col.collected, 1, i)

C23_Witness ==
    \E c \in Collectors :
        /\ Len(collectors[c].collected) = 2
        /\ collectors[c].collected[1] = Interaction(2)
        /\ collectors[c].collected[2] = Interaction(1)
        /\ calls = {}
\* C24: the runtime holds at most one time timer and at most one idle timer
\* of a collector, the ones its handles name; once the collector has ended it
\* holds none, whatever is called afterwards (resetTimer, checkEnd, stop,
\* handleCollect calls made after the end or in flight at the end, a collect
\* listener that calls stop)
C24_OneTimerNoneAfterEnd ==
    \A c \in Collectors :
        LET col == collectors[c]
        IN  /\ col.timers <= 1
            /\ col.idleTimers <= 1
            /\ col.timeout = (col.timers = 1)
            /\ col.idleTimeout = (col.idleTimers = 1)
            /\ col.ended => col.timers = 0 /\ col.idleTimers = 0

\* a collector with an idle timer, reset once, was stopped by a collect
\* listener in the middle of an accept
C24_Witness ==
    \E c \in Collectors :
        LET col == collectors[c]
        IN  /\ col.ended
            /\ col.options.idle # 0
            /\ StopL \in col.onCollect
            /\ col.resets >= 1
            /\ Len(col.collected) >= 1
            /\ col.stopCalls # <<>>
            /\ col.stopCalls[1] = "listener"

\* the users of the items, the latest item of each user id deciding
LatestUsers(items) ==
    {<<items[i].user.id, items[i].user>> :
         i \in {j \in 1..Len(items) :
                    \A k \in (j + 1)..Len(items) :
                        items[k].user.id # items[j].user.id}}

\* C25: in every state between operations (accepted and rejected
\* interactions, empty() calls, stops, timer events) `total` is the number of
\* items in `collected`, and `users` has one entry per user id among them,
\* the user of the latest such interaction
C25_TotalLockstep ==
    \A c \in Collectors :
        LET col == collectors[c]
        IN  col.constructed
            => /\ col.total = Len(col.collected)
               /\ col.users = LatestUsers(col.collected)

\* C26: a collector that has not ended has its interactionCreate listener on
\* the client, the messageDelete and messageDeleteBulk listeners exactly when
\* messageID or messageInteractionID is configured, the channelDelete and
\* threadDelete listeners exactly when channelID is, the guildDelete listener
\* exactly when guildID is, and no step that leaves it not ended changes
\* these or the ids they depend on
C26_Listening ==
    \A c \in Collectors :
        LET col == collectors[c]
            on(ev) == <<ev, c>> \in client.listeners
        IN  col.constructed /\ ~col.ended
            => /\ on("interactionCreate")
               /\ on("messageDelete")
                      = (col.messageID # None \/ col.messageInteractionID # None)
               /\ on("messageDeleteBulk") = on("messageDelete")
               /\ on("channelDelete") = (col.channelID # None)
               /\ on("threadDelete") = on("channelDelete")
               /\ on("guildDelete") = (col.guildID # None)

C26_Step ==
    \A c \in Collectors :
        collectors[c].constructed /\ ~collectors'[c].ended
        => /\ {e \in client'.listeners : e[2] = c}
                  = {e \in client.listeners : e[2] = c}
           /\ \A f \in {"messageID", "messageInteractionID", "channelID",
                         "guildID"} :
                  collectors'[c][f] = collectors[c][f]

C26_ListenersUntilEnd == []C26_Listening /\ [][C26_Step]_vars

\* a collector on a message, no guild configured, has collected and goes on
C26_Witness ==
    \E c \in Collectors :
        /\ collectors[c].constructed
        /\ ~collectors[c].ended
        /\ collectors[c].messageID # None
        /\ collectors[c].guildID = None
        /\ Len(collectors[c].collected) >= 1

\* what a handleCollect call that completes without accepting leaves of
\* collector c: no collect notification, `collected`, `total` and `users` as
\* they were, and either nothing else changed (the timers included), or the
\* collector ended through checkEnd with its end reason
C27_Frame(c) ==
    LET col == collectors[c]
        after == collectors'[c]
    IN  /\ SelectSeq(after.log, IsCollect) = SelectSeq(col.log, IsCollect)
        /\ after.collected = col.collected
        /\ after.total = col.total
        /\ after.users = col.users
        /\ Len(after.checkEnds) = Len(col.checkEnds) + 1
        /\ IF after.ended = col.ended
           THEN /\ [after EXCEPT !.checkEnds = col.checkEnds,
                                 !.stopCalls = col.stopCalls] = col
                /\ client' = client
           ELSE /\ endReason(col) # None
                /\ after.checkEnds[Len(after.checkEnds)]
                /\ after.stopCalls = Append(col.stopCalls, endReason(col))
                /\ after.log =
                       Append(col.log,
                              Notification("end", <<>>,
                                           col.collected, endReason(col)))

C27_Step ==
    \A k \in calls :
        \* the hook did not accept: the call completes, the filter is not
        \* evaluated
        /\ (k.pc = "collect" /\ k.collect = None /\ k \notin calls')
           => /\ \A j \in calls' : ~(j.c = k.c /\ j.n = k.n)
              /\ C27_Frame(k.c)
        \* the filter did not accept
        /\ (k.pc = "filter" /\ ResumeFilter(k, FALSE)) => C27_Frame(k.c)

\* C27: when the collect hook returns a non-accepting result the filter is
\* not evaluated; when the hook or the filter returns a non-accepting result
\* handleCollect emits no collect notification and leaves `collected`,
\* `total`, `users` and both timers unchanged, its only possible effect
\* being the end of the collector through the final checkEnd
C27_RejectChangesNothing == [][C27_Step]_vars

\* a call the filter rejected has ended a collector through checkEnd: the
\* one item was accepted without a user, and its collect listener threw
\* before checkEnd
C27_Witness ==
    \E c \in Collectors :
        /\ collectors[c].ended
        /\ collectors[c].collected = <<Interaction(22)>>
        /\ collectors[c].stopCalls = <<"limit">>
        /\ dispatched = {1, 22}
        /\ calls = {}

C28_Step ==
    \A c \in Collectors :
        LET col == collectors[c]
            after == collectors'[c]
        IN  Len(after.failed) > Len(col.failed)
            => /\ [after EXCEPT !.failed = col.failed] = col
               /\ client' = client
               /\ promises' = promises
               /\ iter' = iter
               \* the failed call is over, the others go on
               /\ \E k \in calls :
                      /\ k.c = c
                      /\ k.n = after.failed[Len(after.failed)].n
                      /\ calls' = calls \ {k}

\* C28: a handleCollect call whose filter raises or rejects fails, and
\* leaves the collector as it was before the call: `collected`, `total`,
\* `users`, `ended` and both timers unchanged, no collect notification and no
\* end notification; the other calls, in flight or later, go on
C28_FilterFailureChangesNothing == [][C28_Step]_vars

\* an interaction was accepted after the call of another one had failed in
\* the filter
C28_Witness ==
    \E c \in Collectors :
        /\ Len(collectors[c].failed) = 1
        /\ Len(collectors[c].collected) > collectors[c].failed[1].collected
        /\ collectors[c].log # <<>>

\* the calls that complete in the step with their item accepted
C29_Accepted ==
    {j \in calls \ calls' :
         /\ \A k \in calls' : ~(k.c = j.c /\ k.n = j.n)
         /\ Len(collectors'[j.c].log) > Len(collectors[j.c].log)
         /\ IsCollect(collectors'[j.c].log[Len(collectors[j.c].log) + 1])}

C29_Step ==
    \A j \in C29_Accepted :
        \* the item goes to the end of `collected` when the filter has
        \* resolved, whatever arrived before it
        /\ collectors'[j.c].collected
               = Append(collectors[j.c].collected, Interaction(j.n))
        \* it passes an earlier call of the collector only if the filter of
        \* that call takes more steps to resolve
        /\ \A k \in calls' :
               (k.c = j.c /\ k.n < j.n) => k.delay > j.delay

\* C29: items are appended to `collected` in the order the calls finish
\* their filter evaluation: an event that arrived later precedes an earlier
\* one whose filter resolves later, and when the filters resolve in the same
\* number of steps the arrival order is kept
C29_CompletionOrder == [][C29_Step]_vars

\* the second interaction has been collected while the call of the first,
\* whose filter takes one step more, is in flight
C29_Witness ==
    \E k \in calls :
        /\ k.n = 1
        /\ k.pc = "filter"
        /\ k.delay = 1
        /\ collectors[k.c].collected = <<Interaction(2)>>
        /\ ~collectors[k.c].ended

C30_Step ==
    \A c, d \in Collectors :
        (/\ c # d
         /\ ~collectors[c].ended
         /\ collectors'[c].ended
         /\ collectors[d].constructed
         /\ ~collectors'[d].ended)
        => /\ {e \in client'.listeners : e[2] = d}
                  = {e \in client.listeners : e[2] = d}
           /\ <<"interactionCreate", d>> \in client'.listeners
           /\ collectors'[d] = collectors[d]

\* C30: when a collector ends, every other collector on the client that has
\* not ended keeps its interactionCreate listener and the deletion listeners
\* it registered, its timers, `collected`, `total`, `users` and `ended`, also
\* when the ending collector had not registered the deletion listeners it
\* removes
C30_Independent == [][C30_Step]_vars

\* a collector without deletion listeners has ended; another one, which has
\* collected, still has its listeners and its timer
C30_Witness ==
    \E c, d \in Collectors :
        /\ collectors[c].ended
        /\ collectors[c].messageID = None
        /\ collectors[c].guildID = None
        /\ ~collectors[d].ended
        /\ {"messageDelete", "messageDeleteBulk", "channelDelete",
            "threadDelete", "guildDelete", "interactionCreate"}
               \subseteq {e[1] : e \in {f \in client.listeners : f[2] = d}}
        /\ collectors[d].timers = 1
        /\ Len(collectors[d].collected) = 1

====
